---- MODULE Spec2Model ----
(***************************************************************************)
(* Model of ocpp::v201::SmartChargingHandler (lib/ocpp/v201/               *)
(* smart_charging.cpp): the profile validators, the profile store, the     *)
(* EVSE registry the handler borrows, the composite schedule, the start    *)
(* time of a profile and the next sweep time; and of the table of charging *)
(* profiles the DatabaseHandler keeps.                                     *)
(*                                                                         *)
(* A std::optional<T> is modelled as a set: {} is std::nullopt and {v} is  *)
(* an optional holding v.                                                  *)
(***************************************************************************)
EXTENDS Integers, Sequences, FiniteSets, TLC

VARIABLES
    evses,                          \* std::map<int32_t, unique_ptr<EvseInterface>>& evses
    station_wide_charging_profiles, \* std::vector<ChargingProfile>
    charging_profiles,              \* std::map<int32_t, std::vector<ChargingProfile>>
    call,                           \* the last operation invoked and what it returned
    profile,                        \* the ChargingProfile object handed to validate_profile_schedules or add_profile
    submitted,                      \* that object as it was when it was handed over
    evse_opt,                       \* std::optional<EvseInterface*> of validate_profile_schedules
    composite,                      \* the last calculate_composite_schedule call: its arguments and what it returned
    timing,                         \* the last get_profile_start_time or get_next_temp_time call: its arguments and what it returned
    CHARGING_PROFILES,              \* the rows of the CHARGING_PROFILES table of the DatabaseHandler
    writes,                         \* every insert_or_update_charging_profile call made so far, in order
    sut                             \* what the last get_all_charging_profiles call returned

vars == <<evses, station_wide_charging_profiles, charging_profiles, call, profile, submitted, evse_opt, composite,
          timing, CHARGING_PROFILES, writes, sut>>

persistence == <<CHARGING_PROFILES, writes, sut>>

store == <<station_wide_charging_profiles, charging_profiles>>

-----------------------------------------------------------------------------
(* Program constants *)

STATION_WIDE_ID == 0

HOURS_PER_DAY == 24

SECONDS_PER_HOUR == 3600

SECONDS_PER_DAY == 86400

DAYS_PER_WEEK == 7

\* the timestamp at which the fixture opens every transaction,
\* 2024-01-17T17:00:00: the model counts its instants from there
date_time == 0

DEFAULT_AND_MAX_NUMBER_PHASES == 3

-----------------------------------------------------------------------------
(* Bounds of the model *)

\* profiles held by the store, over all buckets
MaxStored == 2

\* clock ticks in one second: an ocpp::DateTime is a count of ticks
TicksPerSecond == 2

\* insert_or_update_charging_profile calls in one behaviour
MaxWrites == 3

\* ChargingSchedulePeriods of one submitted profile, over all its schedules
MaxPeriods == 2

\* ChargingSchedules of one submitted profile
MaxSchedules == 2

\* ids an EVSE of the registry can have (the registry is any std::map, so 0 is possible)
RegistryIds == {0, 1}

\* evse_id arguments handed to the handler
EvseIds == {0, 1, 2}

TransactionIds == {"abc", "xyz"}

ProfileIds == {7, 8}

StackLevels == {1, 2}

Purposes == {"TxDefaultProfile", "TxProfile"}

Kinds == {"Absolute", "Relative", "Recurring"}

PhaseTypes == {"AC", "DC"}

-----------------------------------------------------------------------------
(* std::optional *)

nullopt == {}

has_value(o) == o # {}

value(o) == CHOOSE v \in o : TRUE

Optional(S) == {nullopt} \cup {{v} : v \in S}

-----------------------------------------------------------------------------
(* Data *)

\* the one schedule every profile of the store flow carries: the store and the
\* purpose validators never read chargingSchedule
PlainSchedule ==
    [startSchedule |-> {0},
     chargingSchedulePeriod |-> <<[startPeriod |-> 0, numberPhases |-> nullopt, phaseToUse |-> nullopt]>>]

\* the ChargingProfiles submitted to the purpose validators and the store; a
\* TxProfile comes with or without its transaction id, and one TxDefaultProfile
\* carries a transaction id as well (the validators do not forbid it)
StoreProfiles ==
    {p \in [id : ProfileIds,
            stackLevel : StackLevels,
            chargingProfilePurpose : Purposes,
            chargingProfileKind : {"Absolute"},
            transactionId : Optional({"abc"}),
            chargingSchedule : {<<PlainSchedule>>}] :
        (p.chargingProfilePurpose = "TxDefaultProfile" /\ has_value(p.transactionId))
            => (p.id = 7 /\ p.stackLevel = 1)}

\* the ChargingSchedulePeriods a submitted schedule is assembled from
Periods ==
    [startPeriod : {0, 1},
     numberPhases : Optional({0, 1, 4}),
     phaseToUse : Optional({1})]

\* a ChargingProfile before any schedule is put into it
EmptyProfile(kind) ==
    [id |-> 7,
     stackLevel |-> 1,
     chargingProfilePurpose |-> "TxDefaultProfile",
     chargingProfileKind |-> kind,
     transactionId |-> nullopt,
     chargingSchedule |-> <<>>]

\* one profile of each kind, carrying the plain schedule
PlainProfiles ==
    {[EmptyProfile(kind) EXCEPT !.chargingSchedule = <<PlainSchedule>>] : kind \in Kinds}

RECURSIVE PeriodCount(_, _)
PeriodCount(schedules, s) ==
    IF s > Len(schedules) THEN 0
    ELSE Len(schedules[s].chargingSchedulePeriod) + PeriodCount(schedules, s + 1)

\* the registries a handler can be constructed over
Registries ==
    {[id \in ids |-> [id |-> id, transaction |-> nullopt]] : ids \in SUBSET RegistryIds}

\* every profile the store holds, bucket after bucket
RECURSIVE ConcatBuckets(_, _)
ConcatBuckets(m, keys) ==
    IF keys = {} THEN <<>>
    ELSE LET k == CHOOSE x \in keys : \A y \in keys : x <= y
         IN m[k] \o ConcatBuckets(m, keys \ {k})

StoredCount == Len(station_wide_charging_profiles)
               + Len(ConcatBuckets(charging_profiles, DOMAIN charging_profiles))

Range(s) == {s[i] : i \in 1..Len(s)}

-----------------------------------------------------------------------------
(* The validators *)

validate_evse_exists_zero_ok(evse_id) ==
    IF evse_id # STATION_WIDE_ID /\ evse_id \notin DOMAIN evses THEN "EvseDoesNotExist" ELSE "Valid"

validate_evse_exists(evse_id) ==
    IF evse_id \notin DOMAIN evses THEN "EvseDoesNotExist" ELSE "Valid"

get_evse_specific_tx_default_profiles ==
    SelectSeq(ConcatBuckets(charging_profiles, DOMAIN charging_profiles),
              LAMBDA p : p.chargingProfilePurpose = "TxDefaultProfile")

get_station_wide_tx_default_profiles ==
    SelectSeq(station_wide_charging_profiles,
              LAMBDA p : p.chargingProfilePurpose = "TxDefaultProfile")

\* the loop over the candidates, returning at the first duplicate
RECURSIVE tx_default_scan(_, _, _)
tx_default_scan(profiles, i, p) ==
    IF i > Len(profiles) THEN "Valid"
    ELSE IF profiles[i].stackLevel = p.stackLevel /\ profiles[i].id # p.id
         THEN "DuplicateTxDefaultProfileFound"
         ELSE tx_default_scan(profiles, i + 1, p)

validate_tx_default_profile_same_scope(p, evse_id) ==
    LET bucket == IF evse_id \in DOMAIN charging_profiles THEN charging_profiles[evse_id] ELSE <<>>
        profiles == IF evse_id = 0
                    THEN get_station_wide_tx_default_profiles
                    ELSE SelectSeq(bucket, LAMBDA c : c.chargingProfilePurpose = "TxDefaultProfile")
    IN tx_default_scan(profiles, 1, p)

validate_tx_default_profile(p, evse_id) ==
    LET profiles == IF evse_id = 0
                    THEN get_evse_specific_tx_default_profiles
                    ELSE get_station_wide_tx_default_profiles
    IN tx_default_scan(profiles, 1, p)

\* the lambda conflicts_with applied to one bucket of charging_profiles
conflicts_with_ignoring_own_id(p, candidate) ==
    \E i \in 1..Len(candidate) :
        /\ candidate[i].id # p.id
        /\ candidate[i].transactionId = p.transactionId
        /\ candidate[i].stackLevel = p.stackLevel

conflicts_with(p, candidate) ==
    \E i \in 1..Len(candidate) :
        /\ candidate[i].transactionId = p.transactionId
        /\ candidate[i].stackLevel = p.stackLevel

validate_tx_profile_scan_first(p, evse) ==
    IF \E k \in DOMAIN charging_profiles : conflicts_with(p, charging_profiles[k])
    THEN "TxProfileConflictingStackLevel"
    ELSE IF ~has_value(p.transactionId) THEN "TxProfileMissingTransactionId"
    ELSE IF evse.id <= 0 THEN "TxProfileEvseIdNotGreaterThanZero"
    ELSE IF ~has_value(evse.transaction) THEN "TxProfileEvseHasNoActiveTransaction"
    ELSE IF value(evse.transaction) # value(p.transactionId) THEN "TxProfileTransactionNotOnEvse"
    ELSE "Valid"

validate_tx_profile(p, evse) ==
    IF ~has_value(p.transactionId) THEN "TxProfileMissingTransactionId"
    ELSE IF evse.id <= 0 THEN "TxProfileEvseIdNotGreaterThanZero"
    ELSE IF ~has_value(evse.transaction) THEN "TxProfileEvseHasNoActiveTransaction"
    ELSE IF value(evse.transaction) # value(p.transactionId) THEN "TxProfileTransactionNotOnEvse"
    ELSE IF \E k \in DOMAIN charging_profiles : conflicts_with(p, charging_profiles[k])
         THEN "TxProfileConflictingStackLevel"
    ELSE "Valid"

\* variants of check_period that leave out one check each
check_period_order_unchecked(periods, i, ev) ==
    LET csp == periods[i]
    IN IF csp.numberPhases # {1} /\ has_value(csp.phaseToUse)
       THEN "ChargingSchedulePeriodInvalidPhaseToUse"
       ELSE IF i = 1 /\ csp.startPeriod # 0
       THEN "ChargingProfileFirstStartScheduleIsNotZero"
       ELSE IF ev = {"DC"} /\ (has_value(csp.numberPhases) \/ has_value(csp.phaseToUse))
       THEN "ChargingSchedulePeriodExtraneousPhaseValues"
       ELSE IF ev = {"AC"} /\ has_value(csp.numberPhases)
                           /\ value(csp.numberPhases) > DEFAULT_AND_MAX_NUMBER_PHASES
       THEN "ChargingSchedulePeriodUnsupportedNumberPhases"
       ELSE "Valid"

check_period_absent_phases_pass(periods, i, ev) ==
    LET csp == periods[i]
    IN IF has_value(csp.numberPhases) /\ csp.numberPhases # {1} /\ has_value(csp.phaseToUse)
       THEN "ChargingSchedulePeriodInvalidPhaseToUse"
       ELSE IF i = 1 /\ csp.startPeriod # 0
       THEN "ChargingProfileFirstStartScheduleIsNotZero"
       ELSE IF i + 1 <= Len(periods) /\ periods[i + 1].startPeriod <= csp.startPeriod
       THEN "ChargingSchedulePeriodsOutOfOrder"
       ELSE IF ev = {"DC"} /\ (has_value(csp.numberPhases) \/ has_value(csp.phaseToUse))
       THEN "ChargingSchedulePeriodExtraneousPhaseValues"
       ELSE IF ev = {"AC"} /\ has_value(csp.numberPhases)
                           /\ value(csp.numberPhases) > DEFAULT_AND_MAX_NUMBER_PHASES
       THEN "ChargingSchedulePeriodUnsupportedNumberPhases"
       ELSE "Valid"

check_period_dc_number_phases_only(periods, i, ev) ==
    LET csp == periods[i]
    IN IF csp.numberPhases # {1} /\ has_value(csp.phaseToUse)
       THEN "ChargingSchedulePeriodInvalidPhaseToUse"
       ELSE IF i = 1 /\ csp.startPeriod # 0
       THEN "ChargingProfileFirstStartScheduleIsNotZero"
       ELSE IF i + 1 <= Len(periods) /\ periods[i + 1].startPeriod <= csp.startPeriod
       THEN "ChargingSchedulePeriodsOutOfOrder"
       ELSE IF ev = {"DC"} /\ has_value(csp.numberPhases) /\ ~has_value(csp.phaseToUse)
       THEN "ChargingSchedulePeriodExtraneousPhaseValues"
       ELSE IF ev = {"AC"} /\ has_value(csp.numberPhases)
                           /\ value(csp.numberPhases) > DEFAULT_AND_MAX_NUMBER_PHASES
       THEN "ChargingSchedulePeriodUnsupportedNumberPhases"
       ELSE "Valid"

\* the checks of one ChargingSchedulePeriod, in the order of the loop body;
\* "Valid" when none of them returns
check_period_start_first(periods, i, ev) ==
    LET csp == periods[i]
    IN IF i = 1 /\ csp.startPeriod # 0
       THEN "ChargingProfileFirstStartScheduleIsNotZero"
       ELSE IF i + 1 <= Len(periods) /\ periods[i + 1].startPeriod <= csp.startPeriod
       THEN "ChargingSchedulePeriodsOutOfOrder"
       ELSE IF csp.numberPhases # {1} /\ has_value(csp.phaseToUse)
       THEN "ChargingSchedulePeriodInvalidPhaseToUse"
       ELSE IF ev = {"DC"} /\ (has_value(csp.numberPhases) \/ has_value(csp.phaseToUse))
       THEN "ChargingSchedulePeriodExtraneousPhaseValues"
       ELSE IF ev = {"AC"} /\ has_value(csp.numberPhases)
                           /\ value(csp.numberPhases) > DEFAULT_AND_MAX_NUMBER_PHASES
       THEN "ChargingSchedulePeriodUnsupportedNumberPhases"
       ELSE "Valid"

check_period(periods, i, ev) ==
    LET csp == periods[i]
    IN IF csp.numberPhases # {1} /\ has_value(csp.phaseToUse)
       THEN "ChargingSchedulePeriodInvalidPhaseToUse"
       ELSE IF i = 1 /\ csp.startPeriod # 0
       THEN "ChargingProfileFirstStartScheduleIsNotZero"
       ELSE IF i + 1 <= Len(periods) /\ periods[i + 1].startPeriod <= csp.startPeriod
       THEN "ChargingSchedulePeriodsOutOfOrder"
       ELSE IF ev = {"DC"} /\ (has_value(csp.numberPhases) \/ has_value(csp.phaseToUse))
       THEN "ChargingSchedulePeriodExtraneousPhaseValues"
       ELSE IF ev = {"AC"} /\ has_value(csp.numberPhases)
                           /\ value(csp.numberPhases) > DEFAULT_AND_MAX_NUMBER_PHASES
       THEN "ChargingSchedulePeriodUnsupportedNumberPhases"
       ELSE "Valid"

\* K01.FR.49: the period as the loop body leaves it once its checks have passed
default_number_phases_first_only(periods, i, ev) ==
    IF ev = {"AC"} /\ ~has_value(periods[i].numberPhases) /\ i = 1
    THEN [periods[i] EXCEPT !.numberPhases = {DEFAULT_AND_MAX_NUMBER_PHASES}]
    ELSE periods[i]

default_number_phases(periods, i, ev) ==
    IF ev = {"AC"} /\ ~has_value(periods[i].numberPhases)
    THEN [periods[i] EXCEPT !.numberPhases = {DEFAULT_AND_MAX_NUMBER_PHASES}]
    ELSE periods[i]

\* the loop over the periods of one schedule, from period i on
RECURSIVE validate_periods(_, _, _)
validate_periods(periods, i, ev) ==
    IF i > Len(periods) THEN [result |-> "Valid", periods |-> periods]
    ELSE LET result == check_period(periods, i, ev)
         IN IF result # "Valid" THEN [result |-> result, periods |-> periods]
            ELSE validate_periods([periods EXCEPT ![i] = default_number_phases(periods, i, ev)],
                                  i + 1, ev)

\* check_start_schedule without K01.FR.41
check_start_schedule_relative_unchecked(kind, schedule) ==
    IF kind # "Relative" /\ ~has_value(schedule.startSchedule)
    THEN "ChargingProfileMissingRequiredStartSchedule"
    ELSE "Valid"

\* K01.FR.40 and K01.FR.41 for one schedule
check_start_schedule(kind, schedule) ==
    IF kind # "Relative" /\ ~has_value(schedule.startSchedule)
    THEN "ChargingProfileMissingRequiredStartSchedule"
    ELSE IF kind = "Relative" /\ has_value(schedule.startSchedule)
    THEN "ChargingProfileExtraneousStartSchedule"
    ELSE "Valid"

\* the loop over the schedules of the profile, from schedule s on
RECURSIVE validate_schedules(_, _, _, _)
validate_schedules(schedules, s, kind, ev) ==
    IF s > Len(schedules) THEN [result |-> "Valid", schedules |-> schedules]
    ELSE IF schedules[s].chargingSchedulePeriod = <<>>
    THEN [result |-> "ChargingProfileNoChargingSchedulePeriods", schedules |-> schedules]
    ELSE LET r == validate_periods(schedules[s].chargingSchedulePeriod, 1, ev)
             after == [schedules EXCEPT ![s].chargingSchedulePeriod = r.periods]
             coherence == check_start_schedule(kind, schedules[s])
         IN IF r.result # "Valid" THEN [result |-> r.result, schedules |-> after]
            ELSE IF coherence # "Valid" THEN [result |-> coherence, schedules |-> after]
            ELSE validate_schedules(after, s + 1, kind, ev)

\* the result returned, and the profile object as the call leaves it; ev is the
\* current phase type of the EVSE in evse_opt, or nullopt
validate_profile_schedules(p, ev) ==
    LET r == validate_schedules(p.chargingSchedule, 1, p.chargingProfileKind, ev)
    IN [result |-> r.result, profile |-> [p EXCEPT !.chargingSchedule = r.schedules]]

-----------------------------------------------------------------------------
(* The store *)

add_profile(evse_id, p) ==
    IF STATION_WIDE_ID = evse_id
    THEN /\ station_wide_charging_profiles' = Append(station_wide_charging_profiles, p)
         /\ UNCHANGED charging_profiles
    ELSE /\ charging_profiles' =
                IF evse_id \in DOMAIN charging_profiles
                THEN [charging_profiles EXCEPT ![evse_id] = Append(@, p)]
                ELSE charging_profiles @@ (evse_id :> <<p>>)
         /\ UNCHANGED station_wide_charging_profiles

-----------------------------------------------------------------------------
(* The composite schedule *)

\* std::numeric_limits<int>::max()
INT_MAX == 2147483647

AllPurposes == {"ChargingStationMaxProfile", "TxDefaultProfile", "TxProfile",
                "ChargingStationExternalConstraints"}

\* instants, in seconds
Times == 0..3

ChargingRateUnits == {"A", "W"}

\* the profiles handed to calculate_composite_schedule: Absolute, one schedule
\* without duration, one period from its start on
CompositeProfiles ==
    {[id |-> 7,
      stackLevel |-> stack,
      chargingProfilePurpose |-> purpose,
      chargingProfileKind |-> "Absolute",
      chargingSchedule |->
          <<[startSchedule |-> {start},
             chargingSchedulePeriod |->
                 <<[startPeriod |-> 0, limit |-> limit, numberPhases |-> {3}]>>]>>] :
        stack \in StackLevels, purpose \in AllPurposes, start \in {0, 2}, limit \in {10, 20}}

initialize_enhanced_composite_schedule(start_time, end_time, evse_id, charging_rate_unit) ==
    [evseId |-> evse_id,
     duration |-> end_time - start_time,
     scheduleStart |-> start_time,
     chargingRateUnit |-> charging_rate_unit,
     chargingSchedulePeriod |-> <<>>]

determine_duration(start_time, end_time) == end_time - start_time

within_time_window(start_time, end_time) == determine_duration(start_time, end_time) > 0

get_initial_purpose_and_stack_limits ==
    [purpose \in {"ChargingStationMaxProfile", "TxDefaultProfile", "TxProfile"} |->
        [limit |-> INT_MAX, stack_level |-> -1]]

\* calculate_composite_schedule emitting one period per profile handed in
calculate_composite_schedule_period_per_profile(valid_profiles, start_time, end_time, evse_id, charging_rate_unit) ==
    {[initialize_enhanced_composite_schedule(start_time, end_time, evse_id, charging_rate_unit)
        EXCEPT !.chargingSchedulePeriod =
            [i \in 1..Len(valid_profiles) |->
                [startPeriod |-> 0,
                 limit |-> valid_profiles[i].chargingSchedule[1].chargingSchedulePeriod[1].limit,
                 numberPhases |-> {DEFAULT_AND_MAX_NUMBER_PHASES}]]]}

\* the CompositeSchedule returned, as an optional: nullopt when the call leaves
\* through the std::out_of_range of map::at instead of returning. The loop body
\* runs once (it ends in break) and adds no period.
calculate_composite_schedule(valid_profiles, start_time, end_time, evse_id, charging_rate_unit) ==
    LET composite_schedule ==
            initialize_enhanced_composite_schedule(start_time, end_time, evse_id, charging_rate_unit)
        current_purpose_and_stack_limits == get_initial_purpose_and_stack_limits
        out_of_range ==
            /\ within_time_window(start_time, end_time)
            /\ \E i \in 1..Len(valid_profiles) :
                    valid_profiles[i].chargingProfilePurpose
                        \notin DOMAIN current_purpose_and_stack_limits
    IN IF out_of_range THEN nullopt ELSE {composite_schedule}

\* the sweep as the call leaves it: temp_time, which is set to start_time and
\* never assigned again, and the number of times the loop body was entered (the
\* body ends in break, or is left through std::out_of_range)
sweep_at_exit(start_time, end_time) ==
    [temp_time |-> start_time,
     passes |-> IF within_time_window(start_time, end_time) THEN 1 ELSE 0]

\* no calculate_composite_schedule call made yet
NoComposite ==
    [valid_profiles |-> <<>>, start_time |-> 0, end_time |-> 0, evse_id |-> 0,
     charging_rate_unit |-> "A", returned |-> nullopt, sweep |-> sweep_at_exit(0, 0)]

-----------------------------------------------------------------------------
(* Schedule start times and the next sweep time *)

\* std::chrono::seconds(n), in ticks
seconds(n) == n * TicksPerSecond

\* floor<seconds>(d)
floor_seconds(d) == d - (d % TicksPerSecond)

\* a / b of C++ for b > 0: the quotient is truncated towards zero
truncated_quotient(a, b) == IF a >= 0 THEN a \div b ELSE -((-a) \div b)

\* a % b of C++ for b > 0: the remainder has the sign of a
remainder(a, b) == a - b * truncated_quotient(a, b)

\* duration_cast<seconds>(d).count()
duration_cast_seconds(d) == truncated_quotient(d, TicksPerSecond)

RecurrencyKinds == {"Daily", "Weekly"}

\* startSchedule values: half a second past a whole second, a whole second, and
\* one a day later
StartSchedules == {seconds(5) + 1, seconds(5), seconds(SECONDS_PER_DAY + 5)}

\* the times the start of a profile is asked for: before, at and after the
\* startSchedule values, less and more than a day or a week after them
QueryTimes == {seconds(0), seconds(5), seconds(6), seconds(SECONDS_PER_DAY + 6),
               seconds(SECONDS_PER_DAY * (DAYS_PER_WEEK + 1) + 7)}

\* duration and periods of a schedule: startPeriod is in seconds
ScheduleShapes ==
    {[duration |-> nullopt, chargingSchedulePeriod |-> <<[startPeriod |-> 0]>>],
     [duration |-> nullopt, chargingSchedulePeriod |-> <<[startPeriod |-> 0], [startPeriod |-> 1]>>],
     [duration |-> {2}, chargingSchedulePeriod |-> <<[startPeriod |-> 0], [startPeriod |-> 1]>>]}

TimeSchedule(startSchedule, shape) ==
    [startSchedule |-> startSchedule, duration |-> shape.duration,
     chargingSchedulePeriod |-> shape.chargingSchedulePeriod]

\* the first ChargingSchedule of a profile
FirstSchedules ==
    {TimeSchedule(startSchedule, shape) :
        startSchedule \in Optional(StartSchedules), shape \in ScheduleShapes}

\* the ChargingSchedules after the first: none, or one more
LaterSchedules ==
    {<<>>} \cup
    {<<TimeSchedule(startSchedule, [duration |-> nullopt,
                                    chargingSchedulePeriod |-> <<[startPeriod |-> 0]>>])>> :
        startSchedule \in {nullopt, {seconds(SECONDS_PER_DAY + 5)}}}

\* chargingProfileKind with recurrencyKind, which is optional
KindsWithRecurrency ==
    {[chargingProfileKind |-> kind, recurrencyKind |-> nullopt] : kind \in Kinds}
    \cup {[chargingProfileKind |-> "Recurring", recurrencyKind |-> {recurrencyKind}] :
            recurrencyKind \in RecurrencyKinds}

\* the profiles handed to get_profile_start_time and get_next_temp_time
TimeProfiles ==
    {[id |-> 7,
      chargingProfileKind |-> kind.chargingProfileKind,
      recurrencyKind |-> kind.recurrencyKind,
      chargingSchedule |-> <<first>> \o later] :
        kind \in KindsWithRecurrency, first \in FirstSchedules, later \in LaterSchedules}

\* the profiles that follow the first one in a list handed to get_next_temp_time
FollowingProfiles ==
    {[id |-> 8,
      chargingProfileKind |-> kind,
      recurrencyKind |-> nullopt,
      chargingSchedule |-> <<TimeSchedule({startSchedule}, shape)>>] :
        kind \in {"Absolute"}, startSchedule \in {seconds(5), seconds(SECONDS_PER_DAY + 5)},
        shape \in {s \in ScheduleShapes : s.duration = nullopt}}

TimeProfileLists ==
    {<<>>} \cup {<<first>> : first \in TimeProfiles}
           \cup {<<first, second>> : first \in TimeProfiles, second \in FollowingProfiles}

get_absolute_profile_start_time(startSchedule) ==
    IF has_value(startSchedule) THEN {floor_seconds(value(startSchedule))} ELSE nullopt

\* recurrencyKind.value() throws std::bad_optional_access when the profile has
\* no recurrencyKind: see bad_optional_access below
get_recurring_profile_start_time(time, startSchedule, recurrencyKind) ==
    IF has_value(startSchedule) /\ has_value(recurrencyKind)
    THEN LET start_schedule == floor_seconds(value(startSchedule))
             seconds_to_go_back ==
                IF value(recurrencyKind) = "Daily"
                THEN remainder(duration_cast_seconds(time - start_schedule),
                               HOURS_PER_DAY * SECONDS_PER_HOUR)
                ELSE remainder(duration_cast_seconds(time - start_schedule),
                               SECONDS_PER_DAY * DAYS_PER_WEEK)
         IN {time - seconds(seconds_to_go_back)}
    ELSE nullopt

\* the loop of get_profile_start_time over the schedules of the profile, from
\* schedule i on: every schedule assigns period_start_time, except for a
\* Relative profile, whose branch is empty
RECURSIVE profile_start_time_scan(_, _, _, _)
profile_start_time_scan(charging_profile, time, i, period_start_time) ==
    IF i > Len(charging_profile.chargingSchedule) THEN period_start_time
    ELSE LET schedule == charging_profile.chargingSchedule[i]
         IN profile_start_time_scan(charging_profile, time, i + 1,
                CASE charging_profile.chargingProfileKind = "Absolute" ->
                        get_absolute_profile_start_time(schedule.startSchedule)
                  [] charging_profile.chargingProfileKind = "Relative" ->
                        period_start_time
                  [] charging_profile.chargingProfileKind = "Recurring" ->
                        get_recurring_profile_start_time(time, schedule.startSchedule,
                                                         charging_profile.recurrencyKind))

get_profile_start_time(charging_profile, time, evse_id) ==
    profile_start_time_scan(charging_profile, time, 1, nullopt)

\* get_profile_start_time leaves through std::bad_optional_access
bad_optional_access(charging_profile) ==
    /\ charging_profile.chargingProfileKind = "Recurring"
    /\ ~has_value(charging_profile.recurrencyKind)
    /\ \E i \in 1..Len(charging_profile.chargingSchedule) :
            has_value(charging_profile.chargingSchedule[i].startSchedule)

get_period_end_time(period_start_time, charging_schedule_duration, period) == period_start_time

continue_time_arrow(temp_time, period_start_time, period_end_time, lowest_next_time) ==
    temp_time < period_end_time /\ period_end_time < lowest_next_time

\* DateTime(utc_clock::now() + hours(INT_MAX)): converted to the nanoseconds of
\* the clock, hours(INT_MAX) overflows the 64-bit count, which is undefined. The
\* sum the build produces is one of these: the wrapped one, some 55 years after
\* now, or the largest time; both lie after every instant of the model.
FarFutures == {INT_MAX - 1, INT_MAX}

\* the loop of get_next_temp_time over the periods of a schedule, from period i on
RECURSIVE next_temp_time_periods(_, _, _, _, _)
next_temp_time_periods(schedule, i, period_start_time, temp_time, lowest_next_time) ==
    IF i > Len(schedule.chargingSchedulePeriod) THEN lowest_next_time
    ELSE LET period_end_time ==
                get_period_end_time(period_start_time, schedule.duration,
                                    schedule.chargingSchedulePeriod[i])
         IN next_temp_time_periods(schedule, i + 1, period_end_time, temp_time,
                IF continue_time_arrow(temp_time, period_start_time, period_end_time,
                                       lowest_next_time)
                THEN period_end_time ELSE lowest_next_time)

\* the loop of get_next_temp_time over the profiles, from profile i on
RECURSIVE next_temp_time_profiles(_, _, _, _, _)
next_temp_time_profiles(temp_time, valid_profiles, evse_id, i, lowest_next_time) ==
    IF i > Len(valid_profiles) THEN lowest_next_time
    ELSE LET schedule == valid_profiles[i].chargingSchedule[1]
             period_start_time_opt == get_profile_start_time(valid_profiles[i], temp_time, evse_id)
         IN next_temp_time_profiles(temp_time, valid_profiles, evse_id, i + 1,
                IF has_value(period_start_time_opt)
                THEN next_temp_time_periods(schedule, 1, value(period_start_time_opt),
                                            temp_time, lowest_next_time)
                ELSE lowest_next_time)

\* get_next_temp_time with the value utc_clock::now() + hours(INT_MAX) took
get_next_temp_time(temp_time, valid_profiles, evse_id, far_future) ==
    next_temp_time_profiles(temp_time, valid_profiles, evse_id, 1, far_future)

\* no get_profile_start_time or get_next_temp_time call made yet
NoTiming ==
    [op |-> "none", valid_profiles |-> <<>>, time |-> 0, evse_id |-> 0,
     returned |-> nullopt, result |-> "none"]

-----------------------------------------------------------------------------
(* The DatabaseHandler of the charging profiles *)

\* ChargingProfile{id, stackLevel}
DatabaseProfiles == [id : {1, 2}, stackLevel : {1, 2}]

\* the JSON form of a profile: its members, each a name and a value
to_json(charging_profile) ==
    <<<<"id", charging_profile.id>>, <<"stackLevel", charging_profile.stackLevel>>>>

\* where a JSON object holds the member of a name
at(j, name) == CHOOSE i \in 1..Len(j) : j[i][1] = name

from_json(j) == [id |-> j[at(j, "id")][2], stackLevel |-> j[at(j, "stackLevel")][2]]

\* insert_or_update_charging_profile adding a row whatever the table holds
insert_or_update_charging_profile_insert_only(table, evse_id, charging_profile) ==
    Append(table, [ID |-> charging_profile.id, EVSE_ID |-> evse_id,
                   PROFILE |-> to_json(charging_profile)])

\* the row of the profile's id is replaced when there is one, added when not
insert_or_update_charging_profile(table, evse_id, charging_profile) ==
    LET row == [ID |-> charging_profile.id, EVSE_ID |-> evse_id,
                PROFILE |-> to_json(charging_profile)]
    IN IF \E i \in 1..Len(table) : table[i].ID = row.ID
       THEN [i \in 1..Len(table) |-> IF table[i].ID = row.ID THEN row ELSE table[i]]
       ELSE Append(table, row)

\* get_all_charging_profiles returning the rows in the order they were added
get_all_charging_profiles_unordered(table) ==
    [i \in 1..Len(table) |-> from_json(table[i].PROFILE)]

\* the rows in ascending order of ID
RECURSIVE rows_by_id(_)
rows_by_id(rows) ==
    IF rows = {} THEN <<>>
    ELSE LET first == CHOOSE r \in rows : \A other \in rows : r.ID <= other.ID
         IN <<first>> \o rows_by_id(rows \ {first})

\* the profile of every row, in ascending order of ID
get_all_charging_profiles(table) ==
    LET rows == rows_by_id(Range(table))
    IN [i \in 1..Len(rows) |-> from_json(rows[i].PROFILE)]

-----------------------------------------------------------------------------
(* Operations *)

Called(op, evse_id, result) == [op |-> op, evse_id |-> evse_id, result |-> result]

NoCall == Called("none", 0, "none")

ValidatorOps == {"validate_evse_exists", "validate_tx_default_profile",
                 "validate_tx_profile", "validate_profile_schedules"}

\* a handler constructed over a registry, its store empty
Init ==
    /\ evses \in Registries
    /\ station_wide_charging_profiles = <<>>
    /\ charging_profiles = <<>>
    /\ call = NoCall
    /\ profile = EmptyProfile("Absolute")
    /\ submitted = profile
    /\ evse_opt = nullopt
    /\ composite = NoComposite
    /\ timing = NoTiming
    /\ CHARGING_PROFILES = <<>>
    /\ writes = <<>>
    /\ sut = <<>>

\* a transaction starts on an EVSE; id 0 stands for the station as a whole and
\* carries none
OpenTransaction(id, t) ==
    /\ id \in DOMAIN evses
    /\ id # STATION_WIDE_ID
    /\ ~has_value(evses[id].transaction)
    /\ evses' = [evses EXCEPT ![id].transaction = {t}]
    /\ call' = NoCall
    /\ UNCHANGED <<store, profile, submitted, evse_opt, composite, timing, persistence>>

CloseTransaction(id) ==
    /\ id \in DOMAIN evses
    /\ has_value(evses[id].transaction)
    /\ evses' = [evses EXCEPT ![id].transaction = nullopt]
    /\ call' = NoCall
    /\ UNCHANGED <<store, profile, submitted, evse_opt, composite, timing, persistence>>

\* evses[evse_id] in place of evses.find(evse_id): the lookup inserts the key
ValidateEvseExists_subscript(evse_id) ==
    /\ call' = Called("validate_evse_exists", evse_id, validate_evse_exists(evse_id))
    /\ evses' = IF evse_id \in DOMAIN evses THEN evses
                ELSE evses @@ (evse_id :> [id |-> evse_id, transaction |-> nullopt])
    /\ UNCHANGED <<store, profile, submitted, evse_opt, composite, timing, persistence>>

ValidateEvseExists(evse_id) ==
    /\ call' = Called("validate_evse_exists", evse_id, validate_evse_exists(evse_id))
    /\ UNCHANGED <<evses, store, profile, submitted, evse_opt, composite, timing, persistence>>

ValidateTxDefaultProfile(p, evse_id) ==
    /\ p.chargingProfilePurpose = "TxDefaultProfile"
    /\ call' = Called("validate_tx_default_profile", 0, validate_tx_default_profile(p, evse_id))
    /\ UNCHANGED <<evses, store, profile, submitted, evse_opt, composite, timing, persistence>>

ValidateTxProfile(p, evse_id) ==
    /\ p.chargingProfilePurpose = "TxProfile"
    /\ evse_id \in DOMAIN evses
    /\ call' = Called("validate_tx_profile", 0, validate_tx_profile(p, evses[evse_id]))
    /\ UNCHANGED <<evses, store, profile, submitted, evse_opt, composite, timing, persistence>>

\* validate_profile_schedules on a profile object of the caller that the model
\* does not keep
ValidateProfileSchedulesOf(p, ev) ==
    /\ call' = Called("validate_profile_schedules", 0, validate_profile_schedules(p, ev).result)
    /\ UNCHANGED <<evses, store, profile, submitted, evse_opt, composite, timing, persistence>>

\* set_profile of a TxDefaultProfile: validate it for its evse_id, add it when Valid
SetTxDefaultProfile(p, evse_id) ==
    /\ StoredCount < MaxStored
    /\ p.chargingProfilePurpose = "TxDefaultProfile"
    /\ LET result == validate_tx_default_profile(p, evse_id)
       IN /\ call' = Called("set_tx_default_profile", evse_id, result)
          /\ IF result = "Valid" THEN add_profile(evse_id, p) ELSE UNCHANGED store
    /\ UNCHANGED <<evses, profile, submitted, evse_opt, composite, timing, persistence>>

\* set_profile of a TxProfile: validate it against the EVSE, add it when Valid
SetTxProfile(p, evse_id) ==
    /\ StoredCount < MaxStored
    /\ p.chargingProfilePurpose = "TxProfile"
    /\ evse_id \in DOMAIN evses
    /\ LET result == validate_tx_profile(p, evses[evse_id])
       IN /\ call' = Called("set_tx_profile", evse_id, result)
          /\ IF result = "Valid" THEN add_profile(evse_id, p) ELSE UNCHANGED store
    /\ UNCHANGED <<evses, profile, submitted, evse_opt, composite, timing, persistence>>

Next ==
    \/ \E id \in RegistryIds, t \in TransactionIds : OpenTransaction(id, t)
    \/ \E id \in RegistryIds : CloseTransaction(id)
    \/ \E e \in EvseIds : ValidateEvseExists(e)
    \/ \E p \in StoreProfiles, e \in EvseIds : ValidateTxDefaultProfile(p, e)
    \/ \E p \in StoreProfiles, e \in EvseIds : ValidateTxProfile(p, e)
    \/ \E p \in PlainProfiles, ev \in Optional(PhaseTypes) : ValidateProfileSchedulesOf(p, ev)
    \/ \E p \in StoreProfiles, e \in EvseIds : SetTxDefaultProfile(p, e)
    \/ \E p \in StoreProfiles, e \in EvseIds : SetTxProfile(p, e)

Spec == Init /\ [][Next]_vars

-----------------------------------------------------------------------------
(* Schedule validation of a submitted profile *)

\* a profile about to be assembled, of any kind
InitSchedules ==
    /\ evses = <<>>
    /\ station_wide_charging_profiles = <<>>
    /\ charging_profiles = <<>>
    /\ call = NoCall
    /\ profile \in {EmptyProfile(kind) : kind \in Kinds}
    /\ submitted = profile
    /\ evse_opt = nullopt
    /\ composite = NoComposite
    /\ timing = NoTiming
    /\ CHARGING_PROFILES = <<>>
    /\ writes = <<>>
    /\ sut = <<>>

\* the sender appends a ChargingSchedule without periods
AddSchedule(start_schedule) ==
    /\ call = NoCall
    /\ Len(profile.chargingSchedule) < MaxSchedules
    /\ profile' = [profile EXCEPT !.chargingSchedule =
                        Append(@, [startSchedule |-> start_schedule, chargingSchedulePeriod |-> <<>>])]
    /\ submitted' = profile'
    /\ UNCHANGED <<evses, store, call, evse_opt, composite, timing, persistence>>

\* the sender appends a ChargingSchedulePeriod to the last schedule
AddPeriod(period) ==
    /\ call = NoCall
    /\ Len(profile.chargingSchedule) > 0
    /\ PeriodCount(profile.chargingSchedule, 1) < MaxPeriods
    /\ profile' = [profile EXCEPT
                        !.chargingSchedule[Len(profile.chargingSchedule)].chargingSchedulePeriod =
                            Append(@, period)]
    /\ submitted' = profile'
    /\ UNCHANGED <<evses, store, call, evse_opt, composite, timing, persistence>>

\* validate_profile_schedules(profile, evse_opt) on the assembled profile
ValidateProfileSchedules(ev) ==
    /\ call = NoCall
    /\ Len(profile.chargingSchedule) > 0
    /\ LET r == validate_profile_schedules(profile, ev)
       IN /\ profile' = r.profile
          /\ call' = Called("validate_profile_schedules", 0, r.result)
    /\ submitted' = profile
    /\ evse_opt' = ev
    /\ UNCHANGED <<evses, store, composite, timing, persistence>>

NextSchedules ==
    \/ \E start_schedule \in Optional({0}) : AddSchedule(start_schedule)
    \/ \E period \in Periods : AddPeriod(period)
    \/ \E ev \in Optional(PhaseTypes) : ValidateProfileSchedules(ev)

SpecSchedules == InitSchedules /\ [][NextSchedules]_vars

-----------------------------------------------------------------------------
(* add_profile called directly *)

AddProfile(evse_id, p) ==
    /\ StoredCount < MaxStored
    /\ add_profile(evse_id, p)
    /\ call' = Called("add_profile", evse_id, "none")
    /\ profile' = p
    /\ submitted' = p
    /\ UNCHANGED <<evses, evse_opt, composite, timing, persistence>>

NextAdd == \E p \in StoreProfiles, e \in EvseIds : AddProfile(e, p)

SpecAdd == Init /\ [][NextAdd]_vars

-----------------------------------------------------------------------------
(* calculate_composite_schedule *)

\* profiles handed over in one call
MaxProfiles == 2

ProfileLists == UNION {[1..n -> CompositeProfiles] : n \in 0..MaxProfiles}

\* a handler over an empty registry, no call made yet
InitComposite ==
    /\ evses = <<>>
    /\ station_wide_charging_profiles = <<>>
    /\ charging_profiles = <<>>
    /\ call = NoCall
    /\ profile = EmptyProfile("Absolute")
    /\ submitted = profile
    /\ evse_opt = nullopt
    /\ composite = NoComposite
    /\ timing = NoTiming
    /\ CHARGING_PROFILES = <<>>
    /\ writes = <<>>
    /\ sut = <<>>

\* one call on the handler as constructed: the call reads nothing of the handler
\* and leaves it as it was
CalculateCompositeSchedule(valid_profiles, start_time, end_time, evse_id, charging_rate_unit) ==
    LET returned == calculate_composite_schedule(valid_profiles, start_time, end_time,
                                                 evse_id, charging_rate_unit)
    IN /\ call = NoCall
       /\ composite' = [valid_profiles |-> valid_profiles,
                        start_time |-> start_time,
                        end_time |-> end_time,
                        evse_id |-> evse_id,
                        charging_rate_unit |-> charging_rate_unit,
                        returned |-> returned,
                        sweep |-> sweep_at_exit(start_time, end_time)]
       /\ call' = Called("calculate_composite_schedule", evse_id,
                         IF has_value(returned) THEN "returned" ELSE "out_of_range")
       /\ UNCHANGED <<evses, store, profile, submitted, evse_opt, timing, persistence>>

NextComposite ==
    /\ call = NoCall
    /\ \E valid_profiles \in ProfileLists, start_time \in Times, end_time \in Times,
          evse_id \in RegistryIds, charging_rate_unit \in ChargingRateUnits :
           CalculateCompositeSchedule(valid_profiles, start_time, end_time, evse_id, charging_rate_unit)

SpecComposite == InitComposite /\ [][NextComposite]_vars

-----------------------------------------------------------------------------
(* Start times and next sweep times asked of a handler *)

GetProfileStartTime(charging_profile, time, evse_id) ==
    /\ timing' = [op |-> "get_profile_start_time",
                  valid_profiles |-> <<charging_profile>>,
                  time |-> time,
                  evse_id |-> evse_id,
                  returned |-> IF bad_optional_access(charging_profile) THEN nullopt
                               ELSE get_profile_start_time(charging_profile, time, evse_id),
                  result |-> IF bad_optional_access(charging_profile)
                             THEN "bad_optional_access" ELSE "returned"]
    /\ call' = Called("get_profile_start_time", evse_id, timing'.result)
    /\ UNCHANGED <<evses, store, profile, submitted, evse_opt, composite, persistence>>

GetNextTempTime(temp_time, valid_profiles, evse_id) ==
    LET thrown == \E i \in 1..Len(valid_profiles) : bad_optional_access(valid_profiles[i])
    IN /\ \E far_future \in FarFutures :
            timing' = [op |-> "get_next_temp_time",
                       valid_profiles |-> valid_profiles,
                       time |-> temp_time,
                       evse_id |-> evse_id,
                       returned |-> IF thrown THEN nullopt
                                    ELSE {get_next_temp_time(temp_time, valid_profiles,
                                                             evse_id, far_future)},
                       result |-> IF thrown THEN "bad_optional_access" ELSE "returned"]
       /\ call' = Called("get_next_temp_time", evse_id, timing'.result)
       /\ UNCHANGED <<evses, store, profile, submitted, evse_opt, composite, persistence>>

\* transactions start and end; one call is made on the handler
NextTimes ==
    \/ \E id \in RegistryIds, t \in TransactionIds : OpenTransaction(id, t)
    \/ \E id \in RegistryIds : CloseTransaction(id)
    \/ /\ timing = NoTiming
       /\ \E charging_profile \in TimeProfiles, time \in QueryTimes, evse_id \in RegistryIds :
            GetProfileStartTime(charging_profile, time, evse_id)
    \/ /\ timing = NoTiming
       /\ \E temp_time \in QueryTimes, valid_profiles \in TimeProfileLists, evse_id \in RegistryIds :
            GetNextTempTime(temp_time, valid_profiles, evse_id)

SpecTimes == Init /\ [][NextTimes]_vars

-----------------------------------------------------------------------------
(* Profiles written to and read from the database *)

InitDatabase ==
    /\ evses = <<>>
    /\ station_wide_charging_profiles = <<>>
    /\ charging_profiles = <<>>
    /\ call = NoCall
    /\ profile = EmptyProfile("Absolute")
    /\ submitted = profile
    /\ evse_opt = nullopt
    /\ composite = NoComposite
    /\ timing = NoTiming
    /\ CHARGING_PROFILES = <<>>
    /\ writes = <<>>
    /\ sut = <<>>

InsertOrUpdateChargingProfile(evse_id, charging_profile) ==
    /\ Len(writes) < MaxWrites
    /\ CHARGING_PROFILES' = insert_or_update_charging_profile(CHARGING_PROFILES, evse_id,
                                                              charging_profile)
    /\ writes' = Append(writes, [evse_id |-> evse_id, profile |-> charging_profile])
    /\ call' = Called("insert_or_update_charging_profile", evse_id, "returned")
    /\ UNCHANGED <<evses, store, profile, submitted, evse_opt, composite, timing, sut>>

GetAllChargingProfiles ==
    /\ sut' = get_all_charging_profiles(CHARGING_PROFILES)
    /\ call' = Called("get_all_charging_profiles", 0, "returned")
    /\ UNCHANGED <<evses, store, profile, submitted, evse_opt, composite, timing,
                   CHARGING_PROFILES, writes>>

NextDatabase ==
    \/ \E evse_id \in RegistryIds, charging_profile \in DatabaseProfiles :
            InsertOrUpdateChargingProfile(evse_id, charging_profile)
    \/ GetAllChargingProfiles

SpecDatabase == InitDatabase /\ [][NextDatabase]_vars

-----------------------------------------------------------------------------
(* Properties of the validators over the store (Spec) *)

\* every profile held by the store, as a set
StoredProfiles ==
    Range(station_wide_charging_profiles)
        \cup UNION {Range(charging_profiles[k]) : k \in DOMAIN charging_profiles}

\* every profile held by a per-EVSE bucket, as a set
EvseStoredProfiles ==
    UNION {Range(charging_profiles[k]) : k \in DOMAIN charging_profiles}

\* the profiles of the bucket evse_id names: the station-wide bucket for 0
BucketOf(evse_id) ==
    IF evse_id = STATION_WIDE_ID THEN station_wide_charging_profiles
    ELSE IF evse_id \in DOMAIN charging_profiles THEN charging_profiles[evse_id]
    ELSE <<>>

TxDefaultsIn(profiles) == {c \in profiles : c.chargingProfilePurpose = "TxDefaultProfile"}

\* C1 as stated: validate_evse_exists(evse_id) is Valid exactly when evse_id is 0
\* or a key of the registry, so 0 is Valid even when the registry has no entry 0.
EvseExistsZeroAlwaysValid ==
    call.op = "validate_evse_exists" =>
        call.result = IF call.evse_id = 0 \/ call.evse_id \in DOMAIN evses
                      THEN "Valid" ELSE "EvseDoesNotExist"

\* C1 amended: validate_evse_exists(evse_id) is Valid exactly when evse_id is a
\* key of the registry and EvseDoesNotExist otherwise; evse_id 0 gets no special
\* treatment and is Valid only when the registry holds an entry for 0.
EvseExistsIsRegistryLookup ==
    call.op = "validate_evse_exists" =>
        call.result = IF call.evse_id \in DOMAIN evses THEN "Valid" ELSE "EvseDoesNotExist"

\* validate_evse_exists(0) has answered EvseDoesNotExist over a registry without 0
EvseExistsZeroRejected ==
    /\ call.op = "validate_evse_exists"
    /\ call.evse_id = 0
    /\ 0 \notin DOMAIN evses
    /\ call.result = "EvseDoesNotExist"

TxProfileChecks(p, evse, stored) ==
    << <<has_value(p.transactionId), "TxProfileMissingTransactionId">>,
       <<evse.id > 0, "TxProfileEvseIdNotGreaterThanZero">>,
       <<has_value(evse.transaction), "TxProfileEvseHasNoActiveTransaction">>,
       <<evse.transaction = p.transactionId, "TxProfileTransactionNotOnEvse">>,
       <<~\E c \in stored : c.transactionId = p.transactionId /\ c.stackLevel = p.stackLevel,
         "TxProfileConflictingStackLevel">> >>

\* the failure of the first check that does not pass, Valid when all pass
FirstFailure(checks) ==
    LET failing == {i \in 1..Len(checks) : ~checks[i][1]}
    IN IF failing = {} THEN "Valid"
       ELSE checks[CHOOSE i \in failing : \A j \in failing : i <= j][2]

\* C3 as stated: validate_tx_profile reports the first failing check in the
\* order missing transaction id, EVSE id not above zero, no active transaction,
\* transaction not on the EVSE, a stored profile sharing (transaction id, stack
\* level); a Valid profile carries the id of the EVSE's active transaction.
TxProfileConflictsWithAnyStored ==
    \A p \in StoreProfiles : \A k \in DOMAIN evses :
        /\ validate_tx_profile(p, evses[k]) = FirstFailure(TxProfileChecks(p, evses[k], StoredProfiles))
        /\ validate_tx_profile(p, evses[k]) = "Valid" =>
                has_value(p.transactionId) /\ evses[k].transaction = p.transactionId

\* C3 amended: validate_tx_profile reports the first failing check in the order
\* missing transaction id, EVSE id not above zero, no active transaction,
\* transaction not on the EVSE, a profile stored in a per-EVSE bucket sharing
\* (transaction id, stack level); profiles of the station-wide bucket are not
\* compared. A Valid profile carries the id of the EVSE's active transaction.
TxProfileConflictsWithEvseStored ==
    \A p \in StoreProfiles : \A k \in DOMAIN evses :
        /\ validate_tx_profile(p, evses[k]) = FirstFailure(TxProfileChecks(p, evses[k], EvseStoredProfiles))
        /\ validate_tx_profile(p, evses[k]) = "Valid" =>
                has_value(p.transactionId) /\ evses[k].transaction = p.transactionId

\* a TxProfile for the active transaction of its EVSE has been rejected for a
\* stack level conflict while the station-wide bucket holds a profile too
TxProfileConflictReported ==
    /\ call.op = "validate_tx_profile"
    /\ call.result = "TxProfileConflictingStackLevel"
    /\ station_wide_charging_profiles # <<>>

\* C5 (I6): after any sequence of set_profile steps from an empty store, no two
\* stored TxDefault profiles with distinct ids in the same scope (the
\* station-wide bucket, or the bucket of one EVSE) have the same stack level.
NoTxDefaultStackLevelSharedInScope ==
    \A e \in EvseIds :
        \A c, d \in TxDefaultsIn(Range(BucketOf(e))) :
            c.id # d.id => c.stackLevel # d.stackLevel

\* C6 (I7): after any sequence of set_profile steps from an empty store,
\* interleaved with transactions opening and closing, no two entries of the store
\* are TxProfiles with the same (transaction id, stack level).
AtMostOneTxProfilePerTransactionAndStackLevel ==
    LET all == station_wide_charging_profiles
                   \o ConcatBuckets(charging_profiles, DOMAIN charging_profiles)
    IN \A i, j \in 1..Len(all) :
           (/\ i # j
            /\ all[i].chargingProfilePurpose = "TxProfile"
            /\ all[j].chargingProfilePurpose = "TxProfile"
            /\ all[i].transactionId = all[j].transactionId)
               => all[i].stackLevel # all[j].stackLevel

\* a second TxProfile of a transaction has been rejected for the stack level of
\* the one already stored
SecondTxProfileRejected ==
    /\ call.op = "set_tx_profile"
    /\ call.result = "TxProfileConflictingStackLevel"
    /\ \E c \in StoredProfiles : c.chargingProfilePurpose = "TxProfile"

\* C7: a profile (TxDefaultProfile or TxProfile) that validated as Valid and was
\* added to the store validates as Valid again for the same evse_id with the
\* registry unchanged.
RevalidationOfStoredProfileIsValid ==
    LET bucket == BucketOf(call.evse_id)
        stored == bucket[Len(bucket)]
    IN /\ (call.op = "set_tx_default_profile" /\ call.result = "Valid")
               => validate_tx_default_profile(stored, call.evse_id) = "Valid"
       /\ (call.op = "set_tx_profile" /\ call.result = "Valid")
               => validate_tx_profile(stored, evses[call.evse_id]) = "Valid"

\* C8: no step of validate_evse_exists, validate_tx_default_profile,
\* validate_tx_profile or validate_profile_schedules changes the station-wide
\* bucket, a per-EVSE bucket or the registry, whatever result it returns.
ValidatorsLeaveStoreAndRegistry ==
    [][call'.op \in ValidatorOps => (store' = store /\ evses' = evses)]_vars

\* a validator has returned a failure over a store that holds profiles and a
\* registry with a transaction open
ValidatorFailedOverFilledStore ==
    /\ call.op \in ValidatorOps
    /\ call.result # "Valid"
    /\ StoredProfiles # {}
    /\ \E k \in DOMAIN evses : has_value(evses[k].transaction)

-----------------------------------------------------------------------------
(* Properties of validate_profile_schedules (SpecSchedules) *)

\* whether the check reporting failure fails on period i of periods, read on its
\* own, against an EVSE of phase type ev
PeriodFails(periods, i, failure, ev) ==
    LET csp == periods[i]
    IN CASE failure = "ChargingProfileFirstStartScheduleIsNotZero" ->
                i = 1 /\ csp.startPeriod # 0
         [] failure = "ChargingSchedulePeriodsOutOfOrder" ->
                i < Len(periods) /\ periods[i + 1].startPeriod <= csp.startPeriod
         [] failure = "ChargingSchedulePeriodInvalidPhaseToUse" ->
                has_value(csp.phaseToUse) /\ csp.numberPhases # {1}
         [] failure = "ChargingSchedulePeriodExtraneousPhaseValues" ->
                ev = {"DC"} /\ (has_value(csp.numberPhases) \/ has_value(csp.phaseToUse))
         [] failure = "ChargingSchedulePeriodUnsupportedNumberPhases" ->
                ev = {"AC"} /\ \E n \in csp.numberPhases : n > 3

\* kind/start_schedule coherence of one schedule
Coherence(kind, schedule) ==
    IF kind = "Relative"
    THEN IF has_value(schedule.startSchedule)
         THEN "ChargingProfileExtraneousStartSchedule" ELSE "Valid"
    ELSE IF has_value(schedule.startSchedule)
         THEN "Valid" ELSE "ChargingProfileMissingRequiredStartSchedule"

\* the period checks in the order the specification lists them
ListedOrder ==
    <<"ChargingProfileFirstStartScheduleIsNotZero",
      "ChargingSchedulePeriodsOutOfOrder",
      "ChargingSchedulePeriodInvalidPhaseToUse",
      "ChargingSchedulePeriodExtraneousPhaseValues",
      "ChargingSchedulePeriodUnsupportedNumberPhases">>

\* the period checks in the order they are applied to one period
PeriodOrder ==
    <<"ChargingSchedulePeriodInvalidPhaseToUse",
      "ChargingProfileFirstStartScheduleIsNotZero",
      "ChargingSchedulePeriodsOutOfOrder",
      "ChargingSchedulePeriodExtraneousPhaseValues",
      "ChargingSchedulePeriodUnsupportedNumberPhases">>

\* check by check: the earliest listed check that fails on any period
ScheduleResultByCheck(schedule, kind, ev) ==
    LET periods == schedule.chargingSchedulePeriod
        failing == {r \in 1..Len(ListedOrder) :
                        \E i \in 1..Len(periods) : PeriodFails(periods, i, ListedOrder[r], ev)}
    IN IF periods = <<>> THEN "ChargingProfileNoChargingSchedulePeriods"
       ELSE IF failing # {}
       THEN ListedOrder[CHOOSE r \in failing : \A q \in failing : r <= q]
       ELSE Coherence(kind, schedule)

\* period by period: the earliest period with a failing check, and on it the
\* earliest check of PeriodOrder
ScheduleResultByPeriod(schedule, kind, ev) ==
    LET periods == schedule.chargingSchedulePeriod
        failing == {f \in (1..Len(periods)) \X (1..Len(PeriodOrder)) :
                        PeriodFails(periods, f[1], PeriodOrder[f[2]], ev)}
        first == CHOOSE f \in failing :
                    \A g \in failing : f[1] < g[1] \/ (f[1] = g[1] /\ f[2] <= g[2])
    IN IF periods = <<>> THEN "ChargingProfileNoChargingSchedulePeriods"
       ELSE IF failing # {} THEN PeriodOrder[first[2]]
       ELSE Coherence(kind, schedule)

\* the result of the first schedule that has a failure, Valid when none has
FirstScheduleFailure(results) ==
    LET failing == {s \in 1..Len(results) : results[s] # "Valid"}
    IN IF failing = {} THEN "Valid"
       ELSE results[CHOOSE s \in failing : \A t \in failing : s <= t]

\* C4 as stated: for each schedule validate_profile_schedules reports the first
\* check that fails in the listed order: no periods, first start_period not 0,
\* start_periods not strictly increasing, phase_to_use present while
\* number_phases is not 1, DC with phase values, AC with number_phases above 3,
\* kind/start_schedule coherence; an earlier check wins over a later one on
\* whatever period each fails.
SchedulesReportFirstListedCheck ==
    call.op = "validate_profile_schedules" =>
        call.result = FirstScheduleFailure(
            [s \in 1..Len(submitted.chargingSchedule) |->
                ScheduleResultByCheck(submitted.chargingSchedule[s],
                                      submitted.chargingProfileKind, evse_opt)])

\* C4 amended: for each schedule validate_profile_schedules reports no periods
\* first; then it goes through the periods in order and reports, for the first
\* period that fails a check, the first of: phase_to_use present while
\* number_phases is not 1, first start_period not 0, start_period of the next
\* period not greater, DC with phase values, AC with number_phases above 3; and
\* kind/start_schedule coherence only when every period passed. So a first
\* start_period that is not 0 together with an invalid phase_to_use on that period
\* reports ChargingSchedulePeriodInvalidPhaseToUse.
SchedulesReportFirstFailingPeriod ==
    call.op = "validate_profile_schedules" =>
        call.result = FirstScheduleFailure(
            [s \in 1..Len(submitted.chargingSchedule) |->
                ScheduleResultByPeriod(submitted.chargingSchedule[s],
                                       submitted.chargingProfileKind, evse_opt)])

\* an invalid phase_to_use has been reported for a schedule whose first period
\* does not start at 0
InvalidPhaseToUseReportedBeforeFirstStart ==
    /\ call.op = "validate_profile_schedules"
    /\ call.result = "ChargingSchedulePeriodInvalidPhaseToUse"
    /\ submitted.chargingSchedule[1].chargingSchedulePeriod # <<>>
    /\ submitted.chargingSchedule[1].chargingSchedulePeriod[1].startPeriod # 0

\* every period of every schedule of p
PeriodsOf(p) ==
    UNION {Range(p.chargingSchedule[s].chargingSchedulePeriod) : s \in 1..Len(p.chargingSchedule)}

\* C9 (I4): whenever validate_profile_schedules returns Valid for a profile
\* checked against an AC EVSE, every period's number_phases is one of 1, 2, 3.
ValidForACHasOneToThreePhases ==
    (/\ call.op = "validate_profile_schedules"
     /\ call.result = "Valid"
     /\ evse_opt = {"AC"})
        => \A csp \in PeriodsOf(profile) : csp.numberPhases \in {{1}, {2}, {3}}

\* p with number_phases 3 in every period that has none
WithDefaultedPhases(p) ==
    LET defaulted(csp) == IF has_value(csp.numberPhases) THEN csp
                          ELSE [csp EXCEPT !.numberPhases = {3}]
        schedule(cs) == [cs EXCEPT !.chargingSchedulePeriod =
                            [i \in 1..Len(cs.chargingSchedulePeriod) |->
                                defaulted(cs.chargingSchedulePeriod[i])]]
    IN [p EXCEPT !.chargingSchedule =
            [s \in 1..Len(p.chargingSchedule) |-> schedule(p.chargingSchedule[s])]]

\* C10: when validate_profile_schedules returns Valid against an AC EVSE, every
\* period has number_phases present afterwards: 3 where it was absent, its value
\* where it was present, and nothing else of the profile differs; with no EVSE
\* or a DC EVSE the profile is not modified at all.
ValidForACDefaultsAbsentPhases ==
    call.op = "validate_profile_schedules" =>
        /\ (call.result = "Valid" /\ evse_opt = {"AC"}) =>
                /\ profile = WithDefaultedPhases(submitted)
                /\ \A csp \in PeriodsOf(profile) : has_value(csp.numberPhases)
        /\ evse_opt # {"AC"} => profile = submitted

\* a profile has been found Valid against an AC EVSE with number_phases absent
\* in one of its periods and present in another
ValidForACWithAbsentAndPresentPhases ==
    /\ call.op = "validate_profile_schedules"
    /\ call.result = "Valid"
    /\ evse_opt = {"AC"}
    /\ \E csp \in PeriodsOf(submitted) : ~has_value(csp.numberPhases)
    /\ \E csp \in PeriodsOf(submitted) : has_value(csp.numberPhases)
    /\ profile # submitted

\* period i of periods passes every period check against ev
PeriodPasses(periods, i, ev) ==
    \A r \in 1..Len(PeriodOrder) : ~PeriodFails(periods, i, PeriodOrder[r], ev)

\* nothing fails before period i of schedule s: the schedules before s are
\* Valid, and the periods of s before i pass
NothingFailsBefore(schedules, s, i, kind, ev) ==
    /\ \A t \in 1..(s - 1) : ScheduleResultByPeriod(schedules[t], kind, ev) = "Valid"
    /\ \A j \in 1..(i - 1) : PeriodPasses(schedules[s].chargingSchedulePeriod, j, ev)

ValidHasOrderedPeriodsFromZero ==
    (call.op = "validate_profile_schedules" /\ call.result = "Valid") =>
        \A s \in 1..Len(profile.chargingSchedule) :
            LET periods == profile.chargingSchedule[s].chargingSchedulePeriod
            IN /\ Len(periods) >= 1
               /\ periods[1].startPeriod = 0
               /\ \A i, j \in 1..Len(periods) :
                    i < j => periods[i].startPeriod < periods[j].startPeriod

\* a profile with a schedule of two periods has been found Valid
ValidWithTwoPeriods ==
    /\ call.op = "validate_profile_schedules"
    /\ call.result = "Valid"
    /\ \E s \in 1..Len(profile.chargingSchedule) :
            Len(profile.chargingSchedule[s].chargingSchedulePeriod) = 2

\* C13 (I2): whenever validate_profile_schedules returns Valid, every period
\* that carries phase_to_use has number_phases 1, in the input and in the profile
\* as left; a period with phase_to_use present and number_phases absent is never
\* defaulted: the profile is not Valid, the period keeps number_phases absent,
\* and the result is ChargingSchedulePeriodInvalidPhaseToUse when nothing fails
\* before that period.
PhaseToUseNeedsOnePhase ==
    call.op = "validate_profile_schedules" =>
        /\ call.result = "Valid" =>
                \A csp \in PeriodsOf(submitted) \cup PeriodsOf(profile) :
                    has_value(csp.phaseToUse) => csp.numberPhases = {1}
        /\ \A s \in 1..Len(submitted.chargingSchedule) :
                \A i \in 1..Len(submitted.chargingSchedule[s].chargingSchedulePeriod) :
                    LET csp == submitted.chargingSchedule[s].chargingSchedulePeriod[i]
                    IN (has_value(csp.phaseToUse) /\ ~has_value(csp.numberPhases)) =>
                            /\ call.result # "Valid"
                            /\ profile.chargingSchedule[s].chargingSchedulePeriod[i] = csp
                            /\ NothingFailsBefore(submitted.chargingSchedule, s, i,
                                                  submitted.chargingProfileKind, evse_opt)
                                    => call.result = "ChargingSchedulePeriodInvalidPhaseToUse"

\* against an AC EVSE a period with phase_to_use and without number_phases has
\* been rejected after an earlier period was defaulted
PhaseToUseWithoutPhasesRejectedForAC ==
    /\ call.op = "validate_profile_schedules"
    /\ call.result = "ChargingSchedulePeriodInvalidPhaseToUse"
    /\ evse_opt = {"AC"}
    /\ profile # submitted
    /\ \E csp \in PeriodsOf(profile) : has_value(csp.phaseToUse) /\ ~has_value(csp.numberPhases)

\* C14 (I3): whenever validate_profile_schedules returns Valid against a DC
\* EVSE, no period carries number_phases or phase_to_use; a period carrying
\* either is rejected, with ChargingSchedulePeriodExtraneousPhaseValues unless an
\* earlier check already failed.
ValidForDCHasNoPhaseValues ==
    (call.op = "validate_profile_schedules" /\ evse_opt = {"DC"}) =>
        /\ call.result = "Valid" =>
                \A csp \in PeriodsOf(profile) :
                    ~has_value(csp.numberPhases) /\ ~has_value(csp.phaseToUse)
        /\ \A s \in 1..Len(submitted.chargingSchedule) :
                LET periods == submitted.chargingSchedule[s].chargingSchedulePeriod
                IN \A i \in 1..Len(periods) :
                    (has_value(periods[i].numberPhases) \/ has_value(periods[i].phaseToUse)) =>
                        /\ call.result # "Valid"
                        /\ (/\ NothingFailsBefore(submitted.chargingSchedule, s, i,
                                                  submitted.chargingProfileKind, evse_opt)
                            /\ ~PeriodFails(periods, i, "ChargingSchedulePeriodInvalidPhaseToUse", evse_opt)
                            /\ ~PeriodFails(periods, i, "ChargingProfileFirstStartScheduleIsNotZero", evse_opt)
                            /\ ~PeriodFails(periods, i, "ChargingSchedulePeriodsOutOfOrder", evse_opt))
                                => call.result = "ChargingSchedulePeriodExtraneousPhaseValues"

\* against a DC EVSE a period with number_phases 1 and phase_to_use has been
\* rejected for its phase values
PhaseValuesRejectedForDC ==
    /\ call.op = "validate_profile_schedules"
    /\ call.result = "ChargingSchedulePeriodExtraneousPhaseValues"
    /\ evse_opt = {"DC"}
    /\ \E csp \in PeriodsOf(submitted) : has_value(csp.phaseToUse) /\ csp.numberPhases = {1}

-----------------------------------------------------------------------------
(* Properties of add_profile called directly (SpecAdd) *)

\* C15: after any sequence of add_profile calls, each bucket (station-wide for
\* evse_id 0, otherwise the bucket of evse_id) holds at most one profile per
\* profile id, and that profile is the one most recently added with that id.
AddProfileKeepsOnePerId ==
    /\ \A e \in EvseIds :
            \A i, j \in 1..Len(BucketOf(e)) :
                i # j => BucketOf(e)[i].id # BucketOf(e)[j].id
    /\ call.op = "add_profile" =>
            \A c \in Range(BucketOf(call.evse_id)) : c.id = profile.id => c = profile

-----------------------------------------------------------------------------
(* Properties of calculate_composite_schedule (SpecComposite) *)

\* the CompositeSchedule of the last call; read only where one was returned
Returned == value(composite.returned)

\* whether profile p is in effect at instant t: its schedule has started (it has
\* no duration, and its one period lasts from the start on)
InEffectAt(p, t) == \E start \in p.chargingSchedule[1].startSchedule : start <= t

\* the instants of the window [start_time, end_time) of the last call
Window == {t \in Times : composite.start_time <= t /\ t < composite.end_time}

\* the profiles of the last call in effect at t, by their position
InEffect(t) ==
    {i \in 1..Len(composite.valid_profiles) : InEffectAt(composite.valid_profiles[i], t)}

LimitOf(p) == p.chargingSchedule[1].chargingSchedulePeriod[1].limit

Min(S) == CHOOSE x \in S : \A y \in S : x <= y

\* the limit a purpose contributes at t: among its profiles in effect, the
\* lowest limit of those with the highest stack level
PurposeLimitAt(purpose, t) ==
    LET mine == {i \in InEffect(t) :
                    composite.valid_profiles[i].chargingProfilePurpose = purpose}
        top == {i \in mine : \A j \in mine :
                    composite.valid_profiles[j].stackLevel <= composite.valid_profiles[i].stackLevel}
    IN Min({LimitOf(composite.valid_profiles[i]) : i \in top})

\* the purposes with a profile in effect at t
PurposesInEffect(t) ==
    {composite.valid_profiles[i].chargingProfilePurpose : i \in InEffect(t)}

\* the periods of the schedule cs that have started at instant t
StartedAt(cs, t) ==
    {i \in 1..Len(cs.chargingSchedulePeriod) :
        cs.scheduleStart + cs.chargingSchedulePeriod[i].startPeriod <= t}

\* whether the period of cs covering t exists and has this limit
CoveredWithLimit(cs, t, limit) ==
    /\ StartedAt(cs, t) # {}
    /\ LET last == CHOOSE i \in StartedAt(cs, t) : \A j \in StartedAt(cs, t) : j <= i
       IN cs.chargingSchedulePeriod[last].limit = limit

\* C16: for every (valid_profiles, start, end, evse_id, unit),
\* calculate_composite_schedule returns a schedule with evseId = evse_id,
\* chargingRateUnit = unit, scheduleStart = start and duration = end - start,
\* whatever profiles are passed in.
CompositeEnvelopeForEveryInput ==
    call.op = "calculate_composite_schedule" =>
        /\ has_value(composite.returned)
        /\ Returned.evseId = composite.evse_id
        /\ Returned.chargingRateUnit = composite.charging_rate_unit
        /\ Returned.scheduleStart = composite.start_time
        /\ Returned.duration = composite.end_time - composite.start_time

\* C17: when no profile applies anywhere in [start, end), in particular when
\* valid_profiles is empty, calculate_composite_schedule returns an empty period
\* list together with the full duration end - start.
NoProfileAppliesGivesEmptyPeriods ==
    (call.op = "calculate_composite_schedule" /\ \A t \in Window : InEffect(t) = {}) =>
        /\ has_value(composite.returned)
        /\ Returned.chargingSchedulePeriod = <<>>
        /\ Returned.duration = composite.end_time - composite.start_time

\* C18: for every instant t in [start, end) the limit of the composite period
\* covering t is the minimum over purposes of the limit of that purpose's
\* winning profile at t; so one Absolute TxDefault profile covering the window
\* gives one composite period with its limit.
CompositeLimitIsMinimumOverPurposes ==
    call.op = "calculate_composite_schedule" =>
        /\ has_value(composite.returned)
        /\ \A t \in Window :
                InEffect(t) # {} =>
                    CoveredWithLimit(Returned, t,
                        Min({PurposeLimitAt(purpose, t) : purpose \in PurposesInEffect(t)}))

\* C19: within one purpose, at every instant the profile with the highest stack
\* level among those in effect determines that purpose's limit, whether its limit
\* is higher or lower than those of lower stack levels: when the profiles in
\* effect all have one purpose, the composite limit is the limit of the one with
\* the highest stack level.
HighestStackLevelDecidesPurposeLimit ==
    call.op = "calculate_composite_schedule" =>
        /\ has_value(composite.returned)
        /\ \A t \in Window : \A purpose \in AllPurposes :
                PurposesInEffect(t) = {purpose} =>
                    \E i \in InEffect(t) :
                        /\ \A j \in InEffect(t) :
                                composite.valid_profiles[j].stackLevel
                                    <= composite.valid_profiles[i].stackLevel
                        /\ CoveredWithLimit(Returned, t, PurposeLimitAt(purpose, t))

\* C20: in every schedule returned by calculate_composite_schedule the periods
\* have strictly increasing start_period, the first has start_period 0, every
\* start_period is below end - start, and the periods together cover the window
\* up to end - start (every instant of it at which a profile is in effect).
CompositePeriodsCoverWindow ==
    (call.op = "calculate_composite_schedule" /\ has_value(composite.returned)) =>
        LET periods == Returned.chargingSchedulePeriod
        IN /\ \A i, j \in 1..Len(periods) : i < j => periods[i].startPeriod < periods[j].startPeriod
           /\ periods # <<>> => periods[1].startPeriod = 0
           /\ \A i \in 1..Len(periods) : periods[i].startPeriod < Returned.duration
           /\ \A t \in Window : InEffect(t) # {} => StartedAt(Returned, t) # {}

CompositeReturnedForEveryPurpose ==
    (call.op = "calculate_composite_schedule" /\ composite.end_time > composite.start_time) =>
        /\ has_value(composite.returned)
        /\ \A i \in 1..Len(composite.valid_profiles) :
                composite.valid_profiles[i].chargingProfilePurpose
                    \in DOMAIN get_initial_purpose_and_stack_limits

\* C29: calculate_composite_schedule terminates for every input: when
\* end <= start the sweep loop is never entered, and when end > start the sweep
\* stops after finitely many steps, once the sweep time has reached end.
SweepStopsOnceTimeReachesEnd ==
    call.op = "calculate_composite_schedule" =>
        /\ composite.end_time <= composite.start_time => composite.sweep.passes = 0
        /\ (composite.end_time > composite.start_time /\ has_value(composite.returned)) =>
                composite.sweep.temp_time >= composite.end_time

\* C30: when validate_profile_schedules returns any result other than Valid,
\* the profile passed in is left exactly as it was: no period of a rejected
\* profile has had number_phases defaulted to 3.
RejectedProfileLeftAsItWas ==
    (call.op = "validate_profile_schedules" /\ call.result # "Valid") => profile = submitted

-----------------------------------------------------------------------------
(* Start times *)

\* the single profile a get_profile_start_time call was made for
TimedProfile == timing.valid_profiles[1]

StartTimeAsked(kind) ==
    /\ timing.op = "get_profile_start_time"
    /\ TimedProfile.chargingProfileKind = kind

\* C22: for a Relative profile, get_profile_start_time returns the start
\* timestamp of the active transaction of the target EVSE when that EVSE has
\* one, and no start time when it has none.
RelativeStartIsTransactionStart ==
    StartTimeAsked("Relative") =>
        timing.returned =
            IF /\ timing.evse_id \in DOMAIN evses
               /\ has_value(evses[timing.evse_id].transaction)
            THEN {floor_seconds(date_time)}
            ELSE nullopt

\* the recurrence period of a recurrencyKind, in seconds
RecurrencePeriod(recurrencyKind) ==
    IF recurrencyKind = "Daily" THEN SECONDS_PER_DAY ELSE SECONDS_PER_DAY * DAYS_PER_WEEK

\* C23: for a Recurring profile with start_schedule s and any query time t,
\* earlier or later than s, the effective start r is t shifted backward by
\* (t - s) mod P, with P = 86400 for Daily and 604800 for Weekly: r <= t,
\* t - r < P, and r is congruent to s modulo P.
RecurringStartIsLatestRecurrenceBeforeQuery ==
    (/\ StartTimeAsked("Recurring")
     /\ Len(TimedProfile.chargingSchedule) = 1
     /\ has_value(TimedProfile.chargingSchedule[1].startSchedule)
     /\ has_value(TimedProfile.recurrencyKind)) =>
        LET t == timing.time
            s == floor_seconds(value(TimedProfile.chargingSchedule[1].startSchedule))
            P == seconds(RecurrencePeriod(value(TimedProfile.recurrencyKind)))
        IN /\ has_value(timing.returned)
           /\ value(timing.returned) <= t
           /\ t - value(timing.returned) < P
           /\ (value(timing.returned) - s) % P = 0

\* the period boundaries of a profile: with the start get_profile_start_time
\* gives it, each period of its first schedule ends where the next one starts,
\* and the last one where the duration of the schedule ends
PeriodBoundaries(charging_profile, t, evse_id) ==
    LET start == get_profile_start_time(charging_profile, t, evse_id)
        schedule == charging_profile.chargingSchedule[1]
    IN IF has_value(start)
       THEN {value(start) + seconds(schedule.chargingSchedulePeriod[i].startPeriod) :
                i \in 1..Len(schedule.chargingSchedulePeriod)}
            \cup {value(start) + seconds(d) : d \in schedule.duration}
       ELSE {}

LaterBoundaries ==
    {boundary \in UNION {PeriodBoundaries(timing.valid_profiles[i], timing.time, timing.evse_id) :
                            i \in 1..Len(timing.valid_profiles)} :
        boundary > timing.time}

\* C24: get_next_temp_time(t, profiles, evse_id) returns the earliest absolute
\* period boundary strictly later than t over all periods of all the given
\* profiles; the value returned is always strictly later than t.
NextTempTimeIsEarliestLaterBoundary ==
    (timing.op = "get_next_temp_time" /\ timing.result = "returned") =>
        /\ value(timing.returned) > timing.time
        /\ LaterBoundaries # {} =>
                /\ value(timing.returned) \in LaterBoundaries
                /\ \A boundary \in LaterBoundaries : value(timing.returned) <= boundary

\* a profile cut down to its first ChargingSchedule
FirstScheduleOnly(charging_profile) ==
    [charging_profile EXCEPT !.chargingSchedule = <<charging_profile.chargingSchedule[1]>>]

\* C27: for a profile with several ChargingSchedules only the first is consumed:
\* get_profile_start_time derives the start from the first schedule's
\* start_schedule, the schedule whose periods get_next_temp_time walks,
\* whatever the later schedules hold.
StartTimeFromFirstScheduleOnly ==
    (timing.op = "get_profile_start_time" /\ timing.result = "returned") =>
        timing.returned
            = get_profile_start_time(FirstScheduleOnly(TimedProfile), timing.time, timing.evse_id)

-----------------------------------------------------------------------------
(* The database *)

WrittenIds == {writes[i].profile.id : i \in 1..Len(writes)}

\* the profile last written under an id
LastWritten(id) ==
    LET last == CHOOSE i \in 1..Len(writes) :
                    /\ writes[i].profile.id = id
                    /\ \A j \in (i + 1)..Len(writes) : writes[j].profile.id # id
    IN writes[last].profile

\* C25: the persistence layer is an upsert keyed by profile id: after any
\* sequence of insert_or_update_charging_profile calls on an initially empty
\* database the number of rows equals the number of distinct ids written, and
\* the row of an id holds the last profile written for it.
RowsAreLastWritesById ==
    /\ Len(CHARGING_PROFILES) = Cardinality(WrittenIds)
    /\ \A id \in WrittenIds :
            \E i \in 1..Len(CHARGING_PROFILES) :
                /\ CHARGING_PROFILES[i].ID = id
                /\ from_json(CHARGING_PROFILES[i].PROFILE) = LastWritten(id)

\* an id has been written twice, with different profiles, and another id once
IdWrittenTwiceAndAnotherOnce ==
    /\ Cardinality(WrittenIds) = 2
    /\ \E i, j \in 1..Len(writes) :
            /\ i < j
            /\ writes[i].profile.id = writes[j].profile.id
            /\ writes[i].profile # writes[j].profile

\* C26: get_all_charging_profiles returns nothing on an empty database, and
\* otherwise every stored profile exactly once, in ascending id order, each
\* equal field by field to the profile last written for its id.
AllProfilesLoadedInIdOrder ==
    call.op = "get_all_charging_profiles" =>
        /\ writes = <<>> => sut = <<>>
        /\ Len(sut) = Cardinality(WrittenIds)
        /\ \A i \in 1..Len(sut) :
                /\ sut[i].id \in WrittenIds
                /\ sut[i] = LastWritten(sut[i].id)
                /\ i < Len(sut) => sut[i].id < sut[i + 1].id

\* two profiles have been loaded that were written in descending order of id,
\* the first of them overwritten since
LoadedAfterWritesOutOfOrder ==
    /\ call.op = "get_all_charging_profiles"
    /\ Len(sut) = 2
    /\ Len(writes) = MaxWrites
    /\ writes[1].profile.id > writes[2].profile.id
    /\ writes[3].profile.id = writes[1].profile.id
    /\ writes[3].profile # writes[1].profile

====
